---------------------------- MODULE Spec2Model ----------------------------
(***************************************************************************)
(* A model of toReel.py: the two-pass MovementPlanner (plan_movement,      *)
(* get_scene_segments, interpolate_and_smooth), the online PersonTracker   *)
(* (update, handle_no_detection, reset), called by process_frame or        *)
(* directly, the crop window of process_frame and the start of the second  *)
(* pass of process_video, cluster_people, and process_frame run twice over *)
(* one frame sequence in one process.                                      *)
(*                                                                         *)
(* Numbers.  The program computes in binary64 floating point.  The model   *)
(* holds every position, confidence, rate and threshold as the binary64    *)
(* value the program holds and forms every sum, difference, product and    *)
(* quotient as the program does, operation by operation in the order of    *)
(* the source, each rounded to the nearest binary64 value.  Frame numbers,  *)
(* counters, ids and pixel quantities are integers.  Python's None is the  *)
(* value None (-1) where an id or a counter may stand, and None64 where a  *)
(* binary64 value may stand.                                               *)
(***************************************************************************)
EXTENDS Integers, Sequences, FiniteSets, TLC

(***************************************************************************)
(* Binary64 arithmetic                                                     *)
(*                                                                         *)
(* A natural number is the sequence of its digits in base 2^14, least      *)
(* significant first.  A binary64 value is a record [s, m, e] that stands  *)
(* for s * m * 2^e: s is 1 or -1 and m is a number of four digits with     *)
(* exactly 56 bits whose three lowest bits are 0 (the 53 bits of the       *)
(* significand, times 8); zero is s = 1, m = 0, e = 0.  Every operation    *)
(* rounds its exact result to the nearest such value, ties to the even     *)
(* significand, as IEEE 754 arithmetic does.  Magnitudes stay far inside   *)
(* the normal range: there are no subnormal numbers and no overflow.       *)
(***************************************************************************)
Abs(a) == IF a < 0 THEN -a ELSE a

Min(a, b) == IF a < b THEN a ELSE b

Unit == 1000 * 1000

Limb == 16384

NatDigit(n, i) == IF i >= 1 /\ i <= Len(n) THEN n[i] ELSE 0

RECURSIVE NatTop(_, _)
NatTop(n, i) == IF i = 0 THEN 0 ELSE IF n[i] # 0 THEN i ELSE NatTop(n, i - 1)

\* The number of binary digits of d, 0 < d < 2^14.
BitsOf(d) ==
    IF d < 128
    THEN (IF d < 8 THEN (IF d < 2 THEN 1 ELSE IF d < 4 THEN 2 ELSE 3)
          ELSE IF d < 32 THEN (IF d < 16 THEN 4 ELSE 5)
          ELSE IF d < 64 THEN 6 ELSE 7)
    ELSE (IF d < 1024 THEN (IF d < 256 THEN 8 ELSE IF d < 512 THEN 9 ELSE 10)
          ELSE IF d < 4096 THEN (IF d < 2048 THEN 11 ELSE 12)
          ELSE IF d < 8192 THEN 13 ELSE 14)

NatBitsFrom(n, top) == IF top = 0 THEN 0 ELSE 14 * (top - 1) + BitsOf(n[top])

\* The number of binary digits of n.
NatBits(n) == NatBitsFrom(n, NatTop(n, Len(n)))

\* Digit i of n * 2^(14 * k) * p, for p = 2^j with j < 14.
NatShlDigit(n, k, p, i) ==
    ((NatDigit(n, i - k) * p) % Limb) + ((NatDigit(n, i - k - 1) * p) \div Limb)

\* Digit i of the integer part of n / (2^(14 * k) * p).
NatShrDigit(n, k, p, i) ==
    (NatDigit(n, i + k) \div p) + (NatDigit(n, i + k + 1) % p) * (Limb \div p)

NatShl4By(n, k, p) ==
    <<NatShlDigit(n, k, p, 1), NatShlDigit(n, k, p, 2),
      NatShlDigit(n, k, p, 3), NatShlDigit(n, k, p, 4)>>

NatShl8By(n, k, p) ==
    <<NatShlDigit(n, k, p, 1), NatShlDigit(n, k, p, 2),
      NatShlDigit(n, k, p, 3), NatShlDigit(n, k, p, 4),
      NatShlDigit(n, k, p, 5), NatShlDigit(n, k, p, 6),
      NatShlDigit(n, k, p, 7), NatShlDigit(n, k, p, 8)>>

NatShr4By(n, k, p) ==
    <<NatShrDigit(n, k, p, 1), NatShrDigit(n, k, p, 2),
      NatShrDigit(n, k, p, 3), NatShrDigit(n, k, p, 4)>>

\* The four, or eight, lowest digits of n * 2^d.
NatShl4(n, d) == NatShl4By(n, d \div 14, 2^(d % 14))

NatShl8(n, d) == NatShl8By(n, d \div 14, 2^(d % 14))

\* The four lowest digits of the integer part of n / 2^d.
NatShr4(n, d) == NatShr4By(n, d \div 14, 2^(d % 14))

\* Some bit of n below bit j is 1 (bit 0 is the lowest).
NatAnyBelow(n, j) ==
    \/ NatDigit(n, j \div 14 + 1) % 2^(j % 14) # 0
    \/ \E i \in 1..(j \div 14) : NatDigit(n, i) # 0

\* The digits of the number whose digit i, before the carries, is cols[i]
\* (which may exceed a digit or be negative), and the last carry.
NatCarry5(cols) ==
    LET t1 == cols[1]
        t2 == cols[2] + t1 \div Limb
        t3 == cols[3] + t2 \div Limb
        t4 == cols[4] + t3 \div Limb
        t5 == cols[5] + t4 \div Limb
    IN  <<t1 % Limb, t2 % Limb, t3 % Limb, t4 % Limb, t5 % Limb, t5 \div Limb>>

NatCarry8(cols) ==
    LET t1 == cols[1]
        t2 == cols[2] + t1 \div Limb
        t3 == cols[3] + t2 \div Limb
        t4 == cols[4] + t3 \div Limb
        t5 == cols[5] + t4 \div Limb
        t6 == cols[6] + t5 \div Limb
        t7 == cols[7] + t6 \div Limb
        t8 == cols[8] + t7 \div Limb
    IN  <<t1 % Limb, t2 % Limb, t3 % Limb, t4 % Limb,
          t5 % Limb, t6 % Limb, t7 % Limb, t8 % Limb>>

\* -1, 0 or 1 as a is less than, equal to or greater than b, from digit i
\* down.
RECURSIVE NatCmpFrom(_, _, _)
NatCmpFrom(a, b, i) ==
    IF i = 0 THEN 0
    ELSE IF a[i] < b[i] THEN -1
    ELSE IF a[i] > b[i] THEN 1
    ELSE NatCmpFrom(a, b, i - 1)

\* a * b for two numbers of four digits: the sums of the digit products of
\* each position, then the carries.
NatMul(a, b) ==
    NatCarry8(<< a[1] * b[1],
                 a[1] * b[2] + a[2] * b[1],
                 a[1] * b[3] + a[2] * b[2] + a[3] * b[1],
                 a[1] * b[4] + a[2] * b[3] + a[3] * b[2] + a[4] * b[1],
                 a[2] * b[4] + a[3] * b[3] + a[4] * b[2],
                 a[3] * b[4] + a[4] * b[3],
                 a[4] * b[4],
                 0 >>)

Zero64 == [s |-> 1, m |-> <<0, 0, 0, 0>>, e |-> 0]

IsZero64(x) == x.m[4] = 0

\* q has 56 bits: its three lowest bits, and lost (something of the exact
\* value lies below q), decide the rounding of the 53 bits above them.  Up
\* on more than half a unit of the last place kept, and on half a unit when
\* the last place kept is odd.
Round64Up(s, q, e) ==
    IF q[1] + 8 < Limb THEN [s |-> s, m |-> <<q[1] + 8, q[2], q[3], q[4]>>, e |-> e]
    ELSE IF q[2] + 1 < Limb THEN [s |-> s, m |-> <<0, q[2] + 1, q[3], q[4]>>, e |-> e]
    ELSE IF q[3] + 1 < Limb THEN [s |-> s, m |-> <<0, 0, q[3] + 1, q[4]>>, e |-> e]
    ELSE IF q[4] + 1 < Limb THEN [s |-> s, m |-> <<0, 0, 0, q[4] + 1>>, e |-> e]
    ELSE [s |-> s, m |-> <<0, 0, 0, Limb \div 2>>, e |-> e + 1]

Round64Low(s, q, e, lost, low) ==
    IF low > 4 \/ (low = 4 /\ (lost \/ (q[1] \div 8) % 2 = 1))
    THEN Round64Up(s, <<q[1] - low, q[2], q[3], q[4]>>, e)
    ELSE [s |-> s, m |-> <<q[1] - low, q[2], q[3], q[4]>>, e |-> e]

Round64Digits(s, q, e, lost) == Round64Low(s, q, e, lost, q[1] % 8)

Round64Bits(s, n, e, sticky, bits) ==
    IF bits = 0 THEN Zero64
    ELSE IF bits <= 56 THEN Round64Digits(s, NatShl4(n, 56 - bits), e - (56 - bits), sticky)
    ELSE Round64Digits(s, NatShr4(n, bits - 56), e + (bits - 56),
                       sticky \/ NatAnyBelow(n, bits - 56))

\* s * n * 2^e rounded to binary64.  sticky: the exact value is larger in
\* magnitude than n * 2^e by less than 2^e (n then has 56 bits or more).
Round64(s, n, e, sticky) == Round64Bits(s, n, e, sticky, NatBits(n))

\* The binary64 value of the integer n, |n| < 2^31.
Int64(n) ==
    Round64(IF n < 0 THEN -1 ELSE 1,
            <<Abs(n) % Limb, (Abs(n) \div Limb) % Limb, Abs(n) \div (Limb * Limb)>>,
            0, FALSE)

Neg64(x) == IF IsZero64(x) THEN x ELSE [x EXCEPT !.s = -x.s]

Abs64(x) == [x EXCEPT !.s = 1]

\* -1, 0 or 1 as the magnitude of x is less than, equal to or greater than
\* that of y.
CmpMag64(x, y) ==
    IF IsZero64(x) THEN (IF IsZero64(y) THEN 0 ELSE -1)
    ELSE IF IsZero64(y) THEN 1
    ELSE IF x.e < y.e THEN -1
    ELSE IF x.e > y.e THEN 1
    ELSE NatCmpFrom(x.m, y.m, 4)

\* -1, 0 or 1 as x is less than, equal to or greater than y.
Cmp64(x, y) ==
    IF IsZero64(x) /\ IsZero64(y) THEN 0
    ELSE IF IsZero64(x) THEN -y.s
    ELSE IF IsZero64(y) THEN x.s
    ELSE IF x.s # y.s THEN x.s
    ELSE x.s * CmpMag64(x, y)

Less64(x, y) == Cmp64(x, y) < 0

Greater64(x, y) == Cmp64(x, y) > 0

\* The magnitude of y in units of 2^x.e for x.e >= y.e: the integer part,
\* made odd when a part of y lies below it.
Add64Jam(shifted, lost) ==
    <<shifted[1] + (IF lost /\ shifted[1] % 2 = 0 THEN 1 ELSE 0),
      shifted[2], shifted[3], shifted[4]>>

Add64Align(y, d) ==
    IF d = 0 THEN y.m
    ELSE IF d >= 56 THEN <<1, 0, 0, 0>>
    ELSE Add64Jam(NatShr4(y.m, d), NatAnyBelow(y.m, d))

Add64Sum(a, b, sign) ==
    NatCarry5(<<a[1] + sign * b[1], a[2] + sign * b[2],
                a[3] + sign * b[3], a[4] + sign * b[4], 0>>)

\* x + y for |x| >= |y| > 0, sign = 1, and x - y for sign = -1.  The three
\* bits below the last place of x, the lowest of which records whether
\* anything of y lies below it, are enough to round the exact sum correctly.
Add64Ordered(x, y, sign) ==
    IF sign < 0 /\ x.e = y.e /\ x.m = y.m THEN Zero64
    ELSE Round64(x.s, Add64Sum(x.m, Add64Align(y, x.e - y.e), sign), x.e, FALSE)

\* x + y.
Add64(x, y) ==
    IF IsZero64(x) THEN y
    ELSE IF IsZero64(y) THEN x
    ELSE IF CmpMag64(x, y) >= 0 THEN Add64Ordered(x, y, x.s * y.s)
    ELSE Add64Ordered(y, x, x.s * y.s)

\* x - y.
Sub64(x, y) == Add64(x, Neg64(y))

\* x * y.
Mul64(x, y) ==
    IF IsZero64(x) \/ IsZero64(y) THEN Zero64
    ELSE Round64(x.s * y.s, NatMul(x.m, y.m), x.e + y.e, FALSE)

\* Long division in base 2^14 by a divisor v of four digits whose highest
\* digit is 2^13 or more.  r has five digits and r < v * 2^14.  The
\* quotient digit is at most two below the estimate from the two highest
\* digits of r and the highest digit of v: left is r - estimate * v with its
\* last carry, which is negative when the estimate is too large.
RECURSIVE Div64Digits(_, _, _, _)
RECURSIVE Div64Try(_, _, _, _, _, _)
Div64Left(r, v, d) ==
    NatCarry5(<<r[1] - v[1] * d, r[2] - v[2] * d, r[3] - v[3] * d, r[4] - v[4] * d, r[5]>>)

Div64Try(r, v, k, q, estimate, left) ==
    IF left[6] < 0
    THEN Div64Try(r, v, k, q, estimate - 1, Div64Left(r, v, estimate - 1))
    ELSE Div64Digits(<<0, left[1], left[2], left[3], left[4]>>, v, k - 1,
                     <<estimate>> \o q)

Div64Estimate(r, v, k, q, estimate) ==
    Div64Try(r, v, k, q, estimate, Div64Left(r, v, estimate))

\* The digits of the quotient from the highest down: q holds the digits
\* found, r the remainder times 2^14, k the number of digits to come.
Div64Digits(r, v, k, q) ==
    IF k = 0 THEN [q |-> q, inexact |-> NatTop(r, 5) # 0]
    ELSE Div64Estimate(r, v, k, q, Min(Limb - 1, (r[5] * Limb + r[4]) \div v[4]))

Div64First(u, v, left) ==
    IF left[6] < 0
    THEN Div64Digits(<<0, u[1], u[2], u[3], u[4]>>, v, 4, <<0>>)
    ELSE Div64Digits(<<0, left[1], left[2], left[3], left[4]>>, v, 4, <<1>>)

\* The integer part of u * 2^56 / v for u, v of 56 bits each, and whether
\* the division left a remainder.
Div64Quotient(u, v) ==
    Div64First(u, v, NatCarry5(<<u[1] - v[1], u[2] - v[2], u[3] - v[3], u[4] - v[4], 0>>))

Div64Round(s, quotient, e) == Round64(s, quotient.q, e, quotient.inexact)

\* x / y for y # 0.
Div64(x, y) ==
    IF IsZero64(x) THEN Zero64
    ELSE Div64Round(x.s * y.s, Div64Quotient(x.m, y.m), x.e - y.e - 56)

\* -1, 0 or 1 as x is less than, equal to or greater than square * 2^(2e),
\* for x > 0.
CmpSquareOf(x, square, e) ==
    IF 56 + x.e < NatBits(square) + 2 * e THEN -1
    ELSE IF 56 + x.e > NatBits(square) + 2 * e THEN 1
    ELSE NatCmpFrom(NatShl8(x.m, x.e - 2 * e), square, 8)

\* The same for the square of n * 2^e, n of four digits, and x >= 0.
CmpSquare64(x, n, e) ==
    IF IsZero64(x) THEN -1 ELSE CmpSquareOf(x, NatMul(n, n), e)

\* math.sqrt(x) > t for x >= 0.  The square root is rounded to the nearest
\* binary64 value, so for t > 0 it exceeds t exactly when the real root lies
\* above the midpoint of t and the next value above t, which is half a unit
\* of the last place (4 in the digits of m) above t.
SqrtGreater64(x, t) ==
    IF IsZero64(t) THEN ~IsZero64(x)
    ELSE IF t.s < 0 THEN TRUE
    ELSE CmpSquare64(x, <<t.m[1] + 4, t.m[2], t.m[3], t.m[4]>>, t.e) > 0

\* math.sqrt(x) < t for x >= 0: t > 0 and the real root lies below the
\* midpoint of t and the next value below t, which is half as far away
\* when t is a power of two.
SqrtLess64(x, t) ==
    IF IsZero64(t) \/ t.s < 0 THEN FALSE
    ELSE CmpSquare64(x,
                     NatCarry5(<<t.m[1] - (IF t.m = <<0, 0, 0, Limb \div 2>> THEN 2 ELSE 4),
                                 t.m[2], t.m[3], t.m[4], 0>>),
                     t.e) < 0

IntOfDigits(q) == q[1] + q[2] * Limb + q[3] * Limb * Limb

\* x ** 2.  Python's float power is the pow of the C library, which is not
\* correctly rounded: its error stays below 0.55 units of the last place.
\* It returns the binary64 value nearest to the exact square unless the
\* exact square lies within 1/16 of a unit of the last place of the midpoint
\* of two neighbouring values, where it may return either.  Square64 is the
\* set of values the call can return.  q holds the 53 bits kept and three
\* bits below them.
Square64Both(q, e) ==
    {[s |-> 1, m |-> <<q[1] - (q[1] % 8), q[2], q[3], q[4]>>, e |-> e],
     Round64Up(1, <<q[1] - (q[1] % 8), q[2], q[3], q[4]>>, e)}

Square64Bits(n, e, bits) ==
    IF NatShr4(n, bits - 57)[1] % 16 \in {7, 8}
    THEN Square64Both(NatShr4(n, bits - 56), e + (bits - 56))
    ELSE {Round64Bits(1, n, e, FALSE, bits)}

Square64Of(n, e) == Square64Bits(n, e, NatBits(n))

Square64(x) ==
    IF IsZero64(x) THEN {Zero64} ELSE Square64Of(NatMul(x.m, x.m), 2 * x.e)

\* Python's min(x, y): y when y < x, else x.
Min64(x, y) == IF Less64(y, x) THEN y ELSE x

\* int(x) for 0 <= x < 2^31: the integer part.
IntOf64(x) ==
    IF IsZero64(x) \/ -x.e >= 56 THEN 0
    ELSE IF x.e >= 0 THEN IntOfDigits(NatShl4(x.m, x.e))
    ELSE IntOfDigits(NatShr4(x.m, -x.e))

\* The binary64 value of the decimal literal a / 10^6.
Float64(a) == Div64(Int64(a), Int64(Unit))

(***************************************************************************)
(* Program constants                                                       *)
(***************************************************************************)
None == -1

\* None in a place that otherwise holds a binary64 value.
None64 == [s |-> 0, m |-> <<0, 0, 0, 0>>, e |-> 0]

\* The literals 1, 1.0 and 2 of the source.
One64 == Int64(1)

Two64 == Int64(2)

\* CONFIDENCE_MARGIN = 0.15 (line 14)
CONFIDENCE_MARGIN == Float64(150000)

\* DEFAULT_CENTER = 0.5 (line 15)
DEFAULT_CENTER == Float64(500000)

\* scene_change_threshold as passed by process_video and process_frame.
scene_change_threshold == 3000

\* MovementPlanner.__init__
max_movement_per_frame == Float64(30000)

history_size == 3

centering_weight == Float64(400000)

fast_transition_threshold == Float64(100000)

\* interpolate_and_smooth defaults
base_alpha == Float64(100000)

delta_threshold == Float64(15000)

\* Line 256: the literal 0.1 of the final approach.
final_approach == Float64(100000)

\* Line 257: the literal 0.5 that halves the rate.
half_speed == Float64(500000)

\* PersonTracker.__init__
wait_frames == 30

lock_frames == 45

\* The threshold as 30 hundredths of the frame: 0.3 in normalized units.
max_movement_hundredths == Float64(300000)

\* process_frame: max_movement = 30, in the units of the normalized position.
max_movement == Int64(30)

\* cluster_people(people, threshold=0.05)
cluster_threshold == Float64(50000)

(***************************************************************************)
(* Bounds of the model                                                     *)
(***************************************************************************)
\* Most frames a stream delivers to one run of process_video, and the
\* greatest frame count it announces.
MaxFrames == 5

\* Frame rates a MovementPlanner is constructed with.
FpsSet == {2, 4}

\* Candidate x positions offered to plan_movement: two that are 0.1 apart
\* as decimal numbers and one far from both.
PlanXs == {Float64(200000), Float64(500000), Float64(600000)}

\* Frame-difference values (mse of consecutive gray frames).
FrameDiffs == {0, 5000}

\* Cluster ids, confidences and positions offered to the tracker.  Each
\* person stands still: the position of a cluster is given by its id.
TrackIds == {0, 1}

TrackConfs == {Float64(400000), Float64(500000), Float64(550000)}

TrackPos(id) ==
    IF id = 0 THEN <<Float64(250000), Float64(500000)>>
    ELSE <<Float64(750000), Float64(400000)>>

TrackClusters ==
    {[id |-> i, x |-> TrackPos(i)[1], y |-> TrackPos(i)[2], confidence |-> c] :
        i \in TrackIds, c \in TrackConfs}

\* update() is not called once lost_frames has reached this value.
MaxLost == 80

\* Source frame sizes in pixels: widths 1..MaxWidth, heights 1..MaxHeight.
MaxWidth == 12

MaxHeight == 16

\* Normalized centers handed to the crop computation: k / CenterSteps.
CenterSteps == 4

CropCenters == {Div64(Int64(k), Int64(CenterSteps)) : k \in 0..CenterSteps}

\* The clusters of direct calls of update: person 0 at confidence 0.4 and
\* person 1 at 0.4 and at 0.55, which lies exactly CONFIDENCE_MARGIN above.
DirectClusters ==
    {c \in TrackClusters :
        \/ c.confidence = Float64(400000)
        \/ (c.id = 1 /\ c.confidence = Float64(550000))}

\* movement_threshold of direct calls of update: the value process_frame
\* passes, and 0.4, which is less than the distance between the two persons.
MovementThresholds == {max_movement, Float64(400000)}

\* Largest lost_frames from which update is called directly.
MaxLostDirect == 32

\* Largest lost_frames from which update_position is called directly, so
\* that the positions it sets are followed from a fresh and from a newly
\* initialized tracker.
MaxLostPosition == 1

\* The positions handed to direct calls of update_position: one inside the
\* unit square and one outside it.
DirectPositions ==
    {<<Float64(100000), Float64(900000)>>,
     <<Float64(1500000), Neg64(Float64(200000))>>}

\* Gray levels of the frames fed to process_frame twice: two levels close to
\* each other and one far from both.
GrayFrames == {0, 10, 100}

\* Longest frame sequence that is replayed.
MaxReplay == 3

\* Detections handed to cluster_people: positions 0.04 and 0.02 apart around
\* a third, at two heights, and two confidences.
DetectXs == {Float64(500000), Float64(540000), Float64(560000)}

DetectYs == {Float64(500000), Float64(520000)}

DetectConfs == {Float64(400000), Float64(600000)}

\* Longest list of detections.
MaxPeople == 3

(***************************************************************************)
(* State                                                                   *)
(***************************************************************************)
VARIABLES
    \* process_video and its MovementPlanner
    planner,          \* the MovementPlanner instance (self)
    frame_count,      \* frames read in the first pass
    total_frames,     \* CAP_PROP_FRAME_COUNT
    pass,             \* "plan" (first pass), "crop" (second pass), or the
                      \* exception that ended the run
    smoothed_centers, \* result of interpolate_and_smooth
    plan_call,        \* arguments and branch of the latest plan_movement call
    \* process_frame and its PersonTracker
    tracker,          \* PersonTracker.state (self.state)
    prev_gray_frame,  \* the module-level previous gray frame: None, or the
                      \* image (a number standing for its pixels)
    track_call,       \* arguments and status of the latest tracker call
    \* the crop window of one frame
    crop,             \* source width and height, normalized center, the
                      \* rectangle computed, the function that computed it,
                      \* whether the frame was cut, and the exception raised
    \* cluster_people
    clustering,       \* the detections, the loop position, the accumulators
                      \* and the returned list
    \* a frame sequence run twice through process_frame
    replay,           \* the frames fed, the outputs of both runs, the run
    \* history variables (not program state)
    frames_since_switch, \* frames processed since the last committed switch
                         \* with no reset since (None: no such switch),
                         \* counted up to lock_frames + 1
    rival_run,           \* the run of consecutive frames offering one rival
    pending_interrupted, \* a pending candidate is being counted and, since
                         \* its count began at 1, some frame did not offer it
    steady_candidate     \* the x of the candidate when every frame so far
                         \* had no scene cut and a candidate at that same x
                         \* (None otherwise)

pvars == <<planner, frame_count, total_frames, pass, smoothed_centers, plan_call,
           steady_candidate>>

tvars == <<tracker, prev_gray_frame, track_call, frames_since_switch, rival_run,
           pending_interrupted>>

cvars == <<crop>>

kvars == <<clustering>>

rvars == <<replay>>

vars == <<pvars, tvars, cvars, kvars, rvars>>

(***************************************************************************)
(* MovementPlanner                                                         *)
(***************************************************************************)
\* MovementPlanner.__init__(fps)
NewPlanner(fps) ==
    [ frame_data             |-> <<>>,
      fps                    |-> fps,
      current_scene_start    |-> 0,
      waiting_for_detection  |-> FALSE,
      default_x              |-> DEFAULT_CENTER,
      position_history       |-> <<>>,
      in_transition          |-> FALSE,
      stable_frames          |-> 0,
      stable_frames_required |-> fps \div 2,
      is_centering           |-> FALSE ]

FrameRecord(f, x, s) == [frame_num |-> f, x |-> x, is_scene_change |-> s]

\* plan_movement, scene-change branch (lines 133-142).
SceneChange(self, frame_num) ==
    [self EXCEPT
        !.position_history = <<>>,
        !.in_transition = FALSE,
        !.stable_frames = 0,
        !.is_centering = FALSE,
        !.frame_data = Append(@, FrameRecord(frame_num, self.default_x, TRUE)),
        !.current_scene_start = frame_num,
        !.waiting_for_detection = TRUE]

\* Backfill without the test that keeps the scene-change marker.
BackfillOverMarker(frame_data, scene_start, new_x) ==
    [i \in DOMAIN frame_data |->
        IF frame_data[i].frame_num >= scene_start
        THEN FrameRecord(frame_data[i].frame_num, new_x, FALSE)
        ELSE frame_data[i]]

\* The loop of lines 149-153: every record since the scene start that is
\* not the scene-change marker takes the new x.
Backfill(frame_data, scene_start, new_x) ==
    [i \in DOMAIN frame_data |->
        IF frame_data[i].frame_num >= scene_start /\ ~frame_data[i].is_scene_change
        THEN FrameRecord(frame_data[i].frame_num, new_x, FALSE)
        ELSE frame_data[i]]

\* plan_movement, first detection after a scene change (lines 144-156).
FirstDetection(self, cluster) ==
    [self EXCEPT
        !.frame_data = Backfill(@, self.current_scene_start, cluster),
        !.waiting_for_detection = FALSE]

\* Lines 169-172: the step toward the target, at most max_movement_per_frame.
StepLimit(last_x, target_x) ==
    LET movement == Sub64(target_x, last_x)
    IN  IF Greater64(Abs64(movement), max_movement_per_frame)
        THEN Add64(last_x, IF Greater64(movement, Zero64)
                           THEN max_movement_per_frame
                           ELSE Neg64(max_movement_per_frame))
        ELSE target_x

\* Lines 186-188: the history keeps the last history_size positions.
PushHistory(history, x) ==
    LET h == Append(history, x)
    IN  IF Len(h) > history_size THEN Tail(h) ELSE h

\* sum(history) of a non-empty list: Python's sum adds from the left,
\* beginning with the integer 0, and rounds every addition (Python 3.11).
RECURSIVE Sum64(_, _)
Sum64(history, n) ==
    IF n = 1 THEN history[1] ELSE Add64(Sum64(history, n - 1), history[n])

\* The blend with weights that do not add up to 1: the target is weighted
\* by centering_weight too.
CenterBlendUnnormalized(history, target_x) ==
    IF Len(history) > 1
    THEN Add64(Mul64(target_x, centering_weight),
               Mul64(Div64(Sum64(history, Len(history)), Int64(Len(history))),
                     centering_weight))
    ELSE target_x

\* Lines 190-192: blend of the target with the mean of the history.
CenterBlend(history, target_x) ==
    IF Len(history) > 1
    THEN Add64(Mul64(target_x, Sub64(One64, centering_weight)),
               Mul64(Div64(Sum64(history, Len(history)), Int64(Len(history))),
                     centering_weight))
    ELSE target_x

\* The target without the hold: the default center whenever there is no
\* candidate.
TargetXNoHold(self, cluster) ==
    IF cluster # None64 THEN cluster ELSE self.default_x

\* Lines 159-162: the target of a normal update is the candidate's x, else
\* the x of the previous record, else the default center.
TargetX(self, cluster) ==
    IF cluster # None64 THEN cluster
    ELSE IF self.frame_data = <<>> THEN self.default_x
    ELSE self.frame_data[Len(self.frame_data)].x

\* plan_movement, normal update (lines 158-194).  cluster is the candidate's
\* x (cluster[1]) or None64.  near is the test of line 175.
NormalUpdateNear(self, frame_num, target1, near) ==
    LET stable   == IF near THEN self.stable_frames + 1 ELSE 0
        centering == IF near
                     THEN (self.is_centering \/ stable >= self.stable_frames_required)
                     ELSE FALSE
        hist0    == IF near THEN self.position_history ELSE <<>>
        hist1    == IF centering THEN PushHistory(hist0, target1) ELSE hist0
        target2  == IF centering THEN CenterBlend(hist1, target1) ELSE target1
    IN  [self EXCEPT
            !.stable_frames = stable,
            !.is_centering = centering,
            !.position_history = hist1,
            !.frame_data = Append(@, FrameRecord(frame_num, target2, FALSE))]

NormalUpdateFrom(self, frame_num, last_x, target0) ==
    NormalUpdateNear(self, frame_num, StepLimit(last_x, target0),
                     Less64(Abs64(Sub64(target0, last_x)), fast_transition_threshold))

NormalUpdate(self, frame_num, cluster) ==
    IF self.frame_data = <<>>
    THEN [self EXCEPT !.frame_data =
              Append(@, FrameRecord(frame_num, TargetX(self, cluster), FALSE))]
    ELSE NormalUpdateFrom(self, frame_num,
                          self.frame_data[Len(self.frame_data)].x,
                          TargetX(self, cluster))

\* Which branch plan_movement takes.
PlanBranch(self, cluster, frame_diff, threshold) ==
    IF frame_diff > threshold THEN "scene_change"
    ELSE IF self.waiting_for_detection /\ cluster # None64 THEN "first_detection"
    ELSE "normal"

\* MovementPlanner.plan_movement (lines 132-194).
plan_movement(self, frame_num, cluster, frame_diff, threshold) ==
    IF frame_diff > threshold THEN SceneChange(self, frame_num)
    ELSE IF self.waiting_for_detection /\ cluster # None64 THEN FirstDetection(self, cluster)
    ELSE NormalUpdate(self, frame_num, cluster)


\* get_scene_segments, the loop of lines 205-217 from record i on.  A
\* scene-change record that is not the first record closes the current
\* segment at the frame before it and opens the next one.
RECURSIVE SegmentsFrom(_, _, _, _, _)
SegmentsFrom(frame_data, i, segments, current_segment_start, current_positions) ==
    IF i > Len(frame_data)
    THEN [segments |-> segments,
          current_segment_start |-> current_segment_start,
          current_positions |-> current_positions]
    ELSE
      LET r == frame_data[i]
      IN  IF r.is_scene_change /\ i > 1
          THEN SegmentsFrom(frame_data, i + 1,
                            Append(segments,
                                   [start_frame |-> current_segment_start,
                                    end_frame   |-> r.frame_num - 1,
                                    positions   |-> current_positions]),
                            r.frame_num, <<r.x>>)
          ELSE SegmentsFrom(frame_data, i + 1, segments,
                            current_segment_start, Append(current_positions, r.x))

\* MovementPlanner.get_scene_segments (lines 196-227).
get_scene_segments(self) ==
    LET fd   == self.frame_data
        loop == SegmentsFrom(fd, 1, <<>>, 0, <<>>)
    IN  IF loop.current_positions # <<>>
        THEN Append(loop.segments,
                    [start_frame |-> loop.current_segment_start,
                     end_frame   |-> fd[Len(fd)].frame_num,
                     positions   |-> loop.current_positions])
        ELSE loop.segments

\* Lines 251-259: last_x + deceleration_alpha * delta, where
\* deceleration_alpha is base_alpha * distance_factor, halved when
\* abs(delta) < 0.1.
SmoothMove(last_x, delta) ==
    LET distance_factor    == Min64(Mul64(Abs64(delta), Two64), One64)
        deceleration_alpha == Mul64(base_alpha, distance_factor)
    IN  Add64(last_x,
              Mul64(IF Less64(Abs64(delta), final_approach)
                    THEN Mul64(deceleration_alpha, half_speed)
                    ELSE deceleration_alpha,
                    delta))

\* The smoothing step without the dead band of lines 247-249.
SmoothStepNoDeadband(last_x, target_x) ==
    SmoothMove(last_x, Sub64(target_x, last_x))

\* Lines 245-259: one smoothing step from last_x toward target_x.
SmoothStep(last_x, target_x) ==
    IF Less64(Abs64(Sub64(target_x, last_x)), delta_threshold)
    THEN last_x
    ELSE SmoothMove(last_x, Sub64(target_x, last_x))

\* last_x not re-seeded: the value carried from the segment before.
SeedLastXCarried(carried, positions) == carried

\* Line 239: last_x at the start of a segment.  carried is the value the
\* variable last_x holds from the segment before.
SeedLastX(carried, positions) == positions[1]

\* The inner loop of lines 240-262 from index i on (i counts from 1 here):
\* frames start_frame + i - 1 up to end_frame, while positions last.  The
\* assignment of line 261 to a frame that the list of centers does not have
\* raises IndexError, which ends the loop: raised is TRUE and
\* smoothed_centers is the list as it was then.  SmoothSegmentStore is lines
\* 260-261: smoothed_x becomes last_x and the center of the frame.
RECURSIVE SmoothSegment(_, _, _, _)
SmoothSegmentStore(state, seg, i, smoothed_x) ==
    SmoothSegment([state EXCEPT ![seg.start_frame + i] = smoothed_x],
                  seg, i + 1, smoothed_x)

SmoothSegment(state, seg, i, last_x) ==
    IF seg.start_frame + i - 1 > seg.end_frame \/ i > Len(seg.positions)
    THEN [smoothed_centers |-> state, last_x |-> last_x, raised |-> FALSE]
    ELSE IF seg.start_frame + i > Len(state)
    THEN [smoothed_centers |-> state, last_x |-> last_x, raised |-> TRUE]
    ELSE SmoothSegmentStore(state, seg, i, SmoothStep(last_x, seg.positions[i]))

\* The outer loop of lines 238-262 from segment k on.  done is what the
\* inner loop left for segment k.
RECURSIVE SmoothSegments(_, _, _, _)
SmoothSegmentsAfter(done, segments, k) ==
    IF done.raised
    THEN [smoothed_centers |-> done.smoothed_centers, raised |-> TRUE]
    ELSE SmoothSegments(done.smoothed_centers, segments, k + 1, done.last_x)

SmoothSegments(centers, segments, k, last_x) ==
    IF k > Len(segments)
    THEN [smoothed_centers |-> centers, raised |-> FALSE]
    ELSE SmoothSegmentsAfter(SmoothSegment(centers, segments[k], 1,
                                           SeedLastX(last_x, segments[k].positions)),
                             segments, k)

\* MovementPlanner.interpolate_and_smooth (lines 229-264).  The call either
\* returns smoothed_centers, a sequence indexed from 1 in which element
\* f + 1 is the center of frame f, or raises IndexError (raised is TRUE).
interpolate_and_smooth(self, n_frames) ==
    SmoothSegments([f \in 1..n_frames |-> self.default_x],
                   get_scene_segments(self), 1, self.default_x)

(***************************************************************************)
(* process_video, first pass and smoothing                                 *)
(***************************************************************************)
NoCall == [frame_num |-> None, cluster |-> None64, frame_diff |-> 0, branch |-> "none"]

PlannerInit ==
    /\ \E fps \in FpsSet : planner = NewPlanner(fps)
    /\ frame_count = 0
    /\ total_frames \in 0..MaxFrames
    /\ pass = "plan"
    /\ smoothed_centers = <<>>
    /\ plan_call = NoCall
    /\ steady_candidate = None64

\* History: the candidate's x while every frame read had no scene cut and a
\* candidate at one and the same x.
SteadyCandidate(steady, n_read, cluster, frame_diff) ==
    IF cluster = None64 \/ frame_diff > scene_change_threshold THEN None64
    ELSE IF n_read = 0 \/ steady = cluster THEN cluster
    ELSE None64

\* One iteration of the first-pass loop (lines 398-422): the read
\* succeeds, whatever number of frames CAP_PROP_FRAME_COUNT announced.  The
\* frame difference of the first frame is 0 (line 404: no previous gray
\* frame); the best cluster, when there is one, gives the candidate x.  The
\* progress message of line 421 divides by total_frames and raises
\* ZeroDivisionError when that is 0.
PlanFrame ==
    /\ pass = "plan"
    /\ frame_count < MaxFrames
    /\ \E cluster \in PlanXs \cup {None64},
          frame_diff \in (IF frame_count = 0 THEN {0} ELSE FrameDiffs) :
          /\ planner' = plan_movement(planner, frame_count, cluster, frame_diff,
                                      scene_change_threshold)
          /\ plan_call' = [frame_num  |-> frame_count,
                           cluster    |-> cluster,
                           frame_diff |-> frame_diff,
                           branch     |-> PlanBranch(planner, cluster, frame_diff,
                                                     scene_change_threshold)]
          /\ steady_candidate' = SteadyCandidate(steady_candidate, frame_count,
                                                 cluster, frame_diff)
    /\ frame_count' = frame_count + 1
    /\ pass' = IF total_frames = 0 THEN "ZeroDivisionError" ELSE "plan"
    /\ UNCHANGED <<total_frames, smoothed_centers, tvars, cvars, kvars, rvars>>

\* The read fails (line 400), the loop ends and the centers are smoothed
\* (line 426).  The stream may end before or after total_frames frames were
\* read.  When interpolate_and_smooth raises, smoothed_centers is never
\* assigned and the run ends with the exception.
EndOfStream ==
    /\ pass = "plan"
    /\ \E result \in {interpolate_and_smooth(planner, total_frames)} :
           IF result.raised
           THEN /\ pass' = "IndexError"
                /\ UNCHANGED smoothed_centers
           ELSE /\ pass' = "crop"
                /\ smoothed_centers' = result.smoothed_centers
    /\ UNCHANGED <<planner, frame_count, total_frames, plan_call, steady_candidate,
                   tvars, cvars, kvars, rvars>>

(***************************************************************************)
(* PersonTracker                                                           *)
(***************************************************************************)
NoTarget == [id |-> None, confidence |-> None64, frames |-> 0]

\* update_position (lines 286-287).
update_position(state, x, y) == [state EXCEPT !.position = <<x, y>>]

\* PersonTracker.__init__ (lines 270-284): self.state.
NewTrackerState ==
    [ current_id         |-> None,
      current_confidence |-> None64,
      position           |-> <<DEFAULT_CENTER, DEFAULT_CENTER>>,
      lost_frames        |-> 0,
      lock_countdown     |-> 0,
      new_target         |-> NoTarget ]

\* PersonTracker.reset (lines 366-372).
reset(state) ==
    [state EXCEPT
        !.current_id = None,
        !.current_confidence = None64,
        !.position = <<DEFAULT_CENTER, DEFAULT_CENTER>>,
        !.lost_frames = 0,
        !.lock_countdown = 0,
        !.new_target = NoTarget]

\* PersonTracker.distance (lines 292-293) before the square root:
\* (x2 - x1)**2 + (y2 - y1)**2, for every value the two powers can return.
distance_squared(x1, y1, x2, y2) ==
    {Add64(a, b) : a \in Square64(Sub64(x2, x1)), b \in Square64(Sub64(y2, y1))}

\* distance(x1, y1, x2, y2) > threshold: the truth values the comparison
\* can have, one unless the values the powers can return decide it
\* differently.
DistanceGreater(x1, y1, x2, y2, threshold) ==
    {SqrtGreater64(d, threshold) : d \in distance_squared(x1, y1, x2, y2)}

\* The displacement test skipped during the lock period.
MovedTooFarUnlessLocked(state, cluster, movement_threshold) ==
    {state.lock_countdown = 0 /\ far :
        far \in DistanceGreater(state.position[1], state.position[2],
                                cluster.x, cluster.y, movement_threshold)}

\* Line 308: the candidate lies farther than movement_threshold from the
\* current position.
MovedTooFar(state, cluster, movement_threshold) ==
    DistanceGreater(state.position[1], state.position[2], cluster.x, cluster.y,
                    movement_threshold)

\* The comparison of line 321 made inclusive.
NotStrongEnoughInclusive(state, cluster) ==
    ~Greater64(cluster.confidence, Add64(state.current_confidence, CONFIDENCE_MARGIN))

\* The comparison of line 321 without the margin.
NotStrongEnoughNoMargin(state, cluster) ==
    Less64(cluster.confidence, state.current_confidence)

\* Line 321: the candidate's confidence is below current_confidence plus the
\* margin.
NotStrongEnough(state, cluster) ==
    Less64(cluster.confidence, Add64(state.current_confidence, CONFIDENCE_MARGIN))

\* The test of line 327 with the comparison turned around.
InLockInverted(state) == state.lock_countdown < 0

\* Line 327: the lock period after a switch.
InLock(state) == state.lock_countdown > 0

\* The comparison of line 342 made strict: one frame late.
SwitchDueLate(frames) == frames > wait_frames

\* Line 342: the pending candidate has been confirmed for wait_frames frames.
SwitchDue(frames) == frames >= wait_frames

\* Lines 337-338: one coordinate of the confidence-weighted mean of the
\* candidate and the current position.
WeightedMean(new_conf, cand, cur_conf, cur) ==
    Div64(Add64(Mul64(new_conf, cand), Mul64(cur_conf, cur)),
          Add64(new_conf, cur_conf))

\* Lines 345-346: one coordinate of the position after a committed switch.
\* position is the weighted mean that line 339 has just stored.
SwitchBlend(new_conf, cand, position) ==
    Add64(Mul64(new_conf, cand), Mul64(Sub64(One64, new_conf), position))

\* Lines 337-353: a further frame of the pending candidate.
ConfirmCandidate(state, cluster) ==
    LET nt     == state.new_target
        new_x  == WeightedMean(nt.confidence, cluster.x,
                               state.current_confidence, state.position[1])
        new_y  == WeightedMean(nt.confidence, cluster.y,
                               state.current_confidence, state.position[2])
        frames == nt.frames + 1
    IN  IF SwitchDue(frames)
        THEN [state |-> [state EXCEPT
                            !.current_id = nt.id,
                            !.current_confidence = nt.confidence,
                            !.position =
                                <<SwitchBlend(nt.confidence, cluster.x, new_x),
                                  SwitchBlend(nt.confidence, cluster.y, new_y)>>,
                            !.lock_countdown = lock_frames,
                            !.new_target = [nt EXCEPT !.id = None, !.frames = 0]],
              text  |-> "switched"]
        ELSE [state |-> [state EXCEPT
                            !.position = <<new_x, new_y>>,
                            !.new_target = [nt EXCEPT !.frames = frames]],
              text  |-> "buffering"]

\* Lines 308-353: update on a locked-on tracker once the test of line 308
\* has come out as moved_too_far.
UpdateLocked(state, cluster, moved_too_far) ==
    IF moved_too_far
    THEN [state |-> [state EXCEPT
                        !.current_id = cluster.id,
                        !.current_confidence = cluster.confidence,
                        !.position = <<cluster.x, cluster.y>>],
          text  |-> "moved_too_far"]
    ELSE IF cluster.id = state.current_id
    THEN [state |-> [state EXCEPT
                        !.position = <<cluster.x, cluster.y>>,
                        !.current_confidence = cluster.confidence,
                        !.new_target = [@ EXCEPT !.id = None, !.frames = 0]],
          text  |-> "following"]
    ELSE IF NotStrongEnough(state, cluster)
    THEN [state |-> [state EXCEPT
                        !.position = <<cluster.x, cluster.y>>,
                        !.new_target = [@ EXCEPT !.id = None, !.frames = 0]],
          text  |-> "not_strong_enough"]
    ELSE IF InLock(state)
    THEN [state |-> [state EXCEPT !.position = <<cluster.x, cluster.y>>],
          text  |-> "in_lock"]
    ELSE IF state.new_target.id = None \/ state.new_target.id # cluster.id
    THEN [state |-> [state EXCEPT
                        !.new_target = [id         |-> cluster.id,
                                        confidence |-> cluster.confidence,
                                        frames     |-> 1]],
          text  |-> "candidate_started"]
    ELSE ConfirmCandidate(state, cluster)

\* Lines 300-353: update on a frame that is not a scene change, after
\* lost_frames was incremented (state is the state after line 300).
UpdateTracked(state, cluster, movement_threshold) ==
    IF state.current_id = None
    THEN {[state |-> [state EXCEPT
                         !.current_id = cluster.id,
                         !.current_confidence = cluster.confidence,
                         !.position = <<cluster.x, cluster.y>>],
           text  |-> "initializing"]}
    ELSE {UpdateLocked(state, cluster, moved_too_far) :
             moved_too_far \in MovedTooFar(state, cluster, movement_threshold)}

\* PersonTracker.update (lines 295-353).  A result is the new self.state
\* and the kind of the status text returned; update is the set of the
\* results the call can have.
update(state, cluster, frame_diff, threshold, movement_threshold) ==
    IF frame_diff > threshold
    THEN {[state |-> reset(state), text |-> "scene_change"]}
    ELSE UpdateTracked([state EXCEPT !.lost_frames = @ + 1], cluster, movement_threshold)

\* The comparison of line 360 made inclusive: one frame late.
StillHoldingInclusive(lost_frames) == lost_frames <= wait_frames

\* Line 360: the detection has been lost for fewer than wait_frames frames.
StillHolding(lost_frames) == lost_frames < wait_frames

\* PersonTracker.handle_no_detection (lines 355-364).
handle_no_detection(state, frame_diff, threshold) ==
    IF frame_diff > threshold
    THEN [state |-> reset(state), text |-> "scene_change"]
    ELSE LET counted == [state EXCEPT !.lost_frames = @ + 1]
         IN  IF StillHolding(counted.lost_frames)
             THEN [state |-> counted, text |-> "holding"]
             ELSE [state |-> reset(counted), text |-> "lost_reset"]

(***************************************************************************)
(* process_frame                                                           *)
(***************************************************************************)
NoCluster == [id |-> None, x |-> None64, y |-> None64, confidence |-> None64]

NoTrackCall ==
    [cluster |-> NoCluster, frame_diff |-> 0, movement_threshold |-> max_movement,
     text |-> "none"]

NoRun == [id |-> None, n |-> 0]

TrackerInit ==
    /\ tracker = NewTrackerState
    /\ prev_gray_frame = None
    /\ track_call = NoTrackCall
    /\ frames_since_switch = None
    /\ rival_run = NoRun
    /\ pending_interrupted = FALSE

\* Lines 518-522: the tracker call of process_frame.  best_cluster is the
\* cluster of highest confidence, or NoCluster when no detection passed the
\* threshold.  The set of the results the call can have.
TrackerCall(state, best_cluster, frame_diff) ==
    IF best_cluster = NoCluster
    THEN {handle_no_detection(state, frame_diff, scene_change_threshold)}
    ELSE update(state, best_cluster, frame_diff, scene_change_threshold, max_movement)

\* History: frames since the last committed switch, None after a reset.
SinceSwitch(since, result) ==
    IF result.text = "switched" THEN 0
    ELSE IF result.state.current_id = None THEN None
    ELSE IF since = None THEN None
    ELSE Min(since + 1, lock_frames + 1)

\* The frame offers a rival: the tracker is locked on, the frame is no scene
\* change and its candidate has another id than current_id and a confidence
\* of at least current_confidence + CONFIDENCE_MARGIN.
OffersRival(state, best_cluster, frame_diff) ==
    /\ best_cluster # NoCluster
    /\ ~(frame_diff > scene_change_threshold)
    /\ state.current_id # None
    /\ best_cluster.id # state.current_id
    /\ ~Less64(best_cluster.confidence,
               Add64(state.current_confidence, CONFIDENCE_MARGIN))

\* History: the run of consecutive frames offering the same rival, begun in
\* a state with no pending candidate and lock_countdown = 0.
RivalRun(run, state, best_cluster, frame_diff) ==
    IF ~OffersRival(state, best_cluster, frame_diff) THEN NoRun
    ELSE IF run.n > 0 /\ run.id = best_cluster.id
    THEN [run EXCEPT !.n = @ + 1]
    ELSE IF state.new_target.id = None /\ state.lock_countdown = 0
    THEN [id |-> best_cluster.id, n |-> 1]
    ELSE NoRun

\* History: after the call a pending candidate is being counted, and this
\* frame or an earlier one since the count began at 1 did not have the
\* pending candidate as its candidate.
PendingInterrupted(interrupted, result, best_cluster, frame_diff) ==
    IF result.state.new_target.id = None \/ result.text = "candidate_started"
    THEN FALSE
    ELSE IF /\ best_cluster # NoCluster
            /\ ~(frame_diff > scene_change_threshold)
            /\ best_cluster.id = result.state.new_target.id
    THEN interrupted
    ELSE TRUE

\* process_frame (lines 507-522): the frame difference against the previous
\* gray frame (0 when there is none), the best cluster, the tracker call.
ProcessFrame ==
    /\ \E best_cluster \in TrackClusters \cup {NoCluster},
          frame_diff \in (IF prev_gray_frame = None THEN {0} ELSE FrameDiffs) :
          /\ (best_cluster # NoCluster /\ ~(frame_diff > scene_change_threshold))
                => tracker.lost_frames < MaxLost
          /\ \E result \in TrackerCall(tracker, best_cluster, frame_diff) :
                 /\ tracker' = result.state
                 /\ track_call' = [cluster    |-> best_cluster,
                                   frame_diff |-> frame_diff,
                                   movement_threshold |-> max_movement,
                                   text       |-> result.text]
                 /\ frames_since_switch' = SinceSwitch(frames_since_switch, result)
                 /\ rival_run' = RivalRun(rival_run, tracker, best_cluster, frame_diff)
                 /\ pending_interrupted' =
                        PendingInterrupted(pending_interrupted, result,
                                           best_cluster, frame_diff)
    /\ prev_gray_frame' = 0
    /\ UNCHANGED <<pvars, cvars, kvars, rvars>>

\* A caller other than process_frame calls update (lines 295-353) with a
\* candidate, any frame difference and any movement_threshold.  On a scene
\* cut update returns before it reads movement_threshold (lines 296-298),
\* so one value stands for all there.
CallUpdate ==
    /\ \E cluster \in DirectClusters, frame_diff \in FrameDiffs,
          movement_threshold \in MovementThresholds :
          /\ frame_diff > scene_change_threshold => movement_threshold = max_movement
          /\ ~(frame_diff > scene_change_threshold) => tracker.lost_frames < MaxLostDirect
          /\ \E result \in update(tracker, cluster, frame_diff,
                                   scene_change_threshold, movement_threshold) :
                 /\ tracker' = result.state
                 /\ track_call' = [cluster    |-> cluster,
                                   frame_diff |-> frame_diff,
                                   movement_threshold |-> movement_threshold,
                                   text       |-> result.text]
                 /\ frames_since_switch' = SinceSwitch(frames_since_switch, result)
                 /\ rival_run' = RivalRun(rival_run, tracker, cluster, frame_diff)
                 /\ pending_interrupted' =
                        PendingInterrupted(pending_interrupted, result, cluster, frame_diff)
    /\ UNCHANGED <<prev_gray_frame, pvars, cvars, kvars, rvars>>

\* The same caller calls handle_no_detection (lines 355-364).
CallHandleNoDetection ==
    /\ \E frame_diff \in FrameDiffs :
          \E result \in {handle_no_detection(tracker, frame_diff,
                                             scene_change_threshold)} :
              /\ tracker' = result.state
              /\ track_call' = [cluster    |-> NoCluster,
                                frame_diff |-> frame_diff,
                                movement_threshold |-> max_movement,
                                text       |-> result.text]
              /\ frames_since_switch' = SinceSwitch(frames_since_switch, result)
              /\ rival_run' = RivalRun(rival_run, tracker, NoCluster, frame_diff)
              /\ pending_interrupted' =
                     PendingInterrupted(pending_interrupted, result, NoCluster, frame_diff)
    /\ UNCHANGED <<prev_gray_frame, pvars, cvars, kvars, rvars>>

\* The same caller calls reset (lines 366-372).
CallReset ==
    /\ tracker' = reset(tracker)
    /\ track_call' = [cluster    |-> NoCluster,
                      frame_diff |-> 0,
                      movement_threshold |-> max_movement,
                      text       |-> "reset"]
    /\ frames_since_switch' = None
    /\ rival_run' = NoRun
    /\ pending_interrupted' = FALSE
    /\ UNCHANGED <<prev_gray_frame, pvars, cvars, kvars, rvars>>

\* The same caller calls update_position (lines 286-287), which assigns
\* the position and nothing else.
CallUpdatePosition ==
    /\ tracker.lost_frames <= MaxLostPosition
    /\ \E p \in DirectPositions :
           tracker' = update_position(tracker, p[1], p[2])
    /\ track_call' = [cluster    |-> NoCluster,
                      frame_diff |-> 0,
                      movement_threshold |-> max_movement,
                      text       |-> "update_position"]
    /\ UNCHANGED <<frames_since_switch, rival_run, pending_interrupted>>
    /\ UNCHANGED <<prev_gray_frame, pvars, cvars, kvars, rvars>>

(***************************************************************************)
(* Crop window                                                             *)
(***************************************************************************)
\* int(height * ASPECT_RATIO), ASPECT_RATIO = 9 / 16 (lines 16, 431, 524).
CropWidth(height) == (height * 9) \div 16

\* Lines 527-530: the start of the window, clamped.
ClampStart(x_start, crop_width, width) ==
    IF x_start < 0 THEN 0
    ELSE IF x_start + crop_width > width THEN width - crop_width
    ELSE x_start

\* process_frame, lines 524-531: the window around the tracker's position.
FrameCropWindow(position_x, width, height) ==
    LET crop_width == CropWidth(height)
        x_center   == IntOf64(Mul64(position_x, Int64(width)))
        x_start    == ClampStart(x_center - (crop_width \div 2), crop_width, width)
    IN  [x_start |-> x_start, x_end |-> x_start + crop_width, crop_width |-> crop_width]

NoWindow == [x_start |-> 0, x_end |-> 0, crop_width |-> 0]

CropIdle ==
    crop = [width |-> 1, height |-> 1, center |-> DEFAULT_CENTER,
            window |-> NoWindow, by |-> "none", cut |-> FALSE, raised |-> "none"]

CropInit ==
    \E w \in 1..MaxWidth, h \in 1..MaxHeight, c \in CropCenters :
        crop = [width |-> w, height |-> h, center |-> c,
                window |-> NoWindow, by |-> "none", cut |-> FALSE, raised |-> "none"]

\* process_video begins its second pass (lines 428-434).  output_height is
\* cap.get(cv2.CAP_PROP_FRAME_HEIGHT), a float (line 432), and line 434
\* hands (output_width, output_height) to cv2.VideoWriter as the frame
\* size, which takes integers only: the call raises and process_video ends
\* there.  The loop of lines 437-457 is not entered: no window is computed
\* and no frame is cut, whatever the center, the width and the height.
StartSecondPass ==
    /\ crop.by = "none"
    /\ crop' = [crop EXCEPT !.by = "process_video", !.raised = "cv2.VideoWriter"]
    /\ UNCHANGED <<pvars, tvars, kvars, rvars>>

\* process_frame computes the window (lines 524-531) and cuts it (line 532).
CropTrackedFrame ==
    /\ crop.by = "none"
    /\ crop' = [crop EXCEPT
                   !.window = FrameCropWindow(crop.center, crop.width, crop.height),
                   !.by = "process_frame",
                   !.cut = TRUE]
    /\ UNCHANGED <<pvars, tvars, kvars, rvars>>

(***************************************************************************)
(* process_frame on one frame sequence, run twice                          *)
(***************************************************************************)
\* mse (lines 43-47) of two gray images of the same size, each of one gray
\* level throughout: the mean of the squared differences is the squared
\* difference of the two levels.
mse(imageA, imageB) == (imageA - imageB) * (imageA - imageB)

\* Line 511: the frame difference against the module-level previous gray
\* frame, 0 when there is none.
FrameDiff(prev, gray) == IF prev # None THEN mse(prev, gray) ELSE 0

\* The numbers the status text of a call carries, read off the state the
\* call leaves: the person the message names and the count it shows before
\* "/30" (lines 306, 312, 319, 325, 329, 335, 351, 353, 361); the two
\* messages of a reset (lines 298, 358, 364) carry none.
StatusNumbers(state, text) ==
    CASE text \in {"initializing", "moved_too_far", "following",
                   "not_strong_enough", "in_lock", "switched"}
              -> <<state.current_id>>
      [] text = "candidate_started" -> <<state.new_target.id, 1, wait_frames>>
      [] text = "buffering"
              -> <<state.new_target.id, state.new_target.frames, wait_frames>>
      [] text = "holding" -> <<state.lost_frames, wait_frames>>
      [] OTHER -> <<>>

\* What process_frame hands back for a frame (line 547): the status text,
\* that is its kind and the numbers written into it, and the position the
\* crop is cut around.
FrameOutput(result) ==
    [position |-> result.state.position,
     text     |-> result.text,
     numbers  |-> StatusNumbers(result.state, result.text)]

ReplayIdle == replay = [frames |-> <<>>, first |-> <<>>, second |-> <<>>, run |-> 0]

ReplayInit == replay = [frames |-> <<>>, first |-> <<>>, second |-> <<>>, run |-> 1]

\* process_frame (lines 507-522) on the frame with gray image gray and best
\* cluster best_cluster; the output goes to the list of the current run.
ProcessFrameOn(gray, best_cluster) ==
    \E frame_diff \in {FrameDiff(prev_gray_frame, gray)} :
      \E result \in TrackerCall(tracker, best_cluster, frame_diff) :
        /\ prev_gray_frame' = gray
        /\ tracker' = result.state
        /\ track_call' = [cluster    |-> best_cluster,
                          frame_diff |-> frame_diff,
                          movement_threshold |-> max_movement,
                          text       |-> result.text]
        /\ frames_since_switch' = SinceSwitch(frames_since_switch, result)
        /\ rival_run' = RivalRun(rival_run, tracker, best_cluster, frame_diff)
        /\ pending_interrupted' =
               PendingInterrupted(pending_interrupted, result, best_cluster, frame_diff)
        /\ replay' = IF replay.run = 1
                     THEN [replay EXCEPT
                              !.frames = Append(@, [gray |-> gray, best_cluster |-> best_cluster]),
                              !.first = Append(@, FrameOutput(result))]
                     ELSE [replay EXCEPT !.second = Append(@, FrameOutput(result))]

\* First run: the caller passes the next frame of the sequence to
\* process_frame.
FirstRunFrame ==
    /\ replay.run = 1
    /\ Len(replay.frames) < MaxReplay
    /\ \E gray \in GrayFrames, best_cluster \in TrackClusters \cup {NoCluster} :
          ProcessFrameOn(gray, best_cluster)
    /\ UNCHANGED <<pvars, cvars, kvars>>

\* The caller constructs a fresh PersonTracker for the second run (lines
\* 270-284).  The module-level prev_gray_frame (line 22) is no part of the
\* instance and keeps the last frame of the first run.
FreshTracker ==
    /\ replay.run = 1
    /\ Len(replay.frames) >= 1
    /\ tracker' = NewTrackerState
    /\ track_call' = NoTrackCall
    /\ frames_since_switch' = None
    /\ rival_run' = NoRun
    /\ pending_interrupted' = FALSE
    /\ replay' = [replay EXCEPT !.run = 2]
    /\ UNCHANGED <<prev_gray_frame, pvars, cvars, kvars>>

\* Second run: the same frames again, in order.
SecondRunFrame ==
    /\ replay.run = 2
    /\ Len(replay.second) < Len(replay.frames)
    /\ LET frame == replay.frames[Len(replay.second) + 1]
       IN  ProcessFrameOn(frame.gray, frame.best_cluster)
    /\ UNCHANGED <<pvars, cvars, kvars>>

(***************************************************************************)
(* cluster_people                                                          *)
(***************************************************************************)
\* A detection is keypoints[:3] of a person: y, x and confidence.
Detections ==
    {[y |-> y, x |-> x, confidence |-> c] :
        y \in DetectYs, x \in DetectXs, c \in DetectConfs}

RECURSIVE SeqsUpTo(_, _)
SeqsUpTo(S, n) ==
    IF n = 0 THEN {<<>>}
    ELSE LET shorter == SeqsUpTo(S, n - 1)
         IN  shorter \cup {Append(q, e) : q \in {r \in shorter : Len(r) = n - 1}, e \in S}

\* Lines 88-90 before the square root: the squared distance of a detection
\* from the cluster's running centroid, for every value the two powers can
\* return.
CentroidDistanceSquared(cluster, person) ==
    {Add64(a, b) :
        a \in Square64(Sub64(person.x, Div64(cluster.sum_x, Int64(cluster.count)))),
        b \in Square64(Sub64(person.y, Div64(cluster.sum_y, Int64(cluster.count))))}

\* Line 91: distance < threshold, the truth values the comparison can have.
WithinThreshold(cluster, person, threshold) ==
    {SqrtLess64(d, threshold) : d \in CentroidDistanceSquared(cluster, person)}

\* The inner loop of lines 87-98 from cluster k on: the index of the cluster
\* the detection is added to, which is the first one in creation order that
\* lies within the threshold (the loop breaks there), 0 when there is none.
\* The set of the indices the loop can end with.
RECURSIVE JoinedFrom(_, _, _, _)
JoinedFrom(clusters, person, threshold, k) ==
    IF k > Len(clusters) THEN {0}
    ELSE UNION {IF within THEN {k} ELSE JoinedFrom(clusters, person, threshold, k + 1) :
                   within \in WithinThreshold(clusters[k], person, threshold)}

JoinedCluster(clusters, person, threshold) == JoinedFrom(clusters, person, threshold, 1)

\* Lines 92-96 and 99-100: the accumulators after the detection was added
\* to cluster k, or to a new cluster when k is 0.
AddPersonTo(clusters, person, k) ==
    IF k = 0
    THEN Append(clusters, [sum_x |-> person.x, sum_y |-> person.y,
                           count |-> 1,
                           max_conf |-> person.confidence])
    ELSE [clusters EXCEPT
             ![k] = [sum_x    |-> Add64(@.sum_x, person.x),
                     sum_y    |-> Add64(@.sum_y, person.y),
                     count    |-> @.count + 1,
                     max_conf |-> IF Greater64(person.confidence, @.max_conf)
                                  THEN person.confidence ELSE @.max_conf]]

\* One iteration of the loop of lines 84-100: the lists of accumulators it
\* can leave.
AddPerson(clusters, person, threshold) ==
    {AddPersonTo(clusters, person, k) : k \in JoinedCluster(clusters, person, threshold)}

\* Lines 102-107: the returned list of (cluster_id, avg_x, avg_y, max_confidence).
MergedPeople(clusters) ==
    [k \in DOMAIN clusters |->
        [id         |-> k - 1,
         x          |-> Div64(clusters[k].sum_x, Int64(clusters[k].count)),
         y          |-> Div64(clusters[k].sum_y, Int64(clusters[k].count)),
         confidence |-> clusters[k].max_conf]]

RECURSIVE ClustersOf(_, _, _)
ClustersOf(people, n, threshold) ==
    IF n = 0 THEN {<<>>}
    ELSE UNION {AddPerson(clusters, people[n], threshold) :
                   clusters \in ClustersOf(people, n - 1, threshold)}

\* cluster_people (lines 77-108): the lists the call can return.
cluster_people(people, threshold) ==
    {MergedPeople(clusters) : clusters \in ClustersOf(people, Len(people), threshold)}

ClusterIdle ==
    clustering = [people |-> <<>>, i |-> 0, clusters |-> <<>>, before |-> <<>>,
                  joined |-> 0, merged_people |-> <<>>, returned |-> FALSE]

ClusterInit ==
    \E people \in SeqsUpTo(Detections, MaxPeople) :
        clustering = [people |-> people, i |-> 0, clusters |-> <<>>, before |-> <<>>,
                      joined |-> 0, merged_people |-> <<>>, returned |-> FALSE]

\* One iteration of the loop of lines 84-100.  before and joined record the
\* accumulators the detection met and the one it was added to.
ClusterPerson ==
    /\ ~clustering.returned
    /\ clustering.i < Len(clustering.people)
    /\ \E k \in JoinedCluster(clustering.clusters, clustering.people[clustering.i + 1],
                              cluster_threshold) :
          clustering' = [clustering EXCEPT
                            !.i = @ + 1,
                            !.before = clustering.clusters,
                            !.joined = IF k = 0 THEN Len(clustering.clusters) + 1 ELSE k,
                            !.clusters = AddPersonTo(@, clustering.people[clustering.i + 1], k)]
    /\ UNCHANGED <<pvars, tvars, cvars, rvars>>

\* Lines 102-108: the loop is over, the list is built and returned.
ClusterReturn ==
    /\ ~clustering.returned
    /\ clustering.i = Len(clustering.people)
    /\ clustering' = [clustering EXCEPT
                         !.merged_people = MergedPeople(clustering.clusters),
                         !.returned = TRUE]
    /\ UNCHANGED <<pvars, tvars, cvars, rvars>>

(***************************************************************************)
(* Specifications                                                          *)
(***************************************************************************)
\* process_video: the first pass over a stream and the smoothing.
InitPlanner == PlannerInit /\ TrackerInit /\ CropIdle /\ ClusterIdle /\ ReplayIdle

NextPlanner == PlanFrame \/ EndOfStream

SpecPlanner == InitPlanner /\ [][NextPlanner]_vars

\* A planner that is not run: one frame at 2 frames per second, not started.
PlannerIdle == PlannerInit /\ total_frames = 1 /\ planner.fps = 2

\* process_frame called frame after frame on one PersonTracker.
InitTracker == TrackerInit /\ PlannerIdle /\ CropIdle /\ ClusterIdle /\ ReplayIdle

NextTracker == ProcessFrame

SpecTracker == InitTracker /\ [][NextTracker]_vars

\* The crop of both pipelines on every size and center: process_frame
\* computes and cuts the window, process_video ends before it computes one.
InitCrop == CropInit /\ TrackerInit /\ PlannerIdle /\ ClusterIdle /\ ReplayIdle

NextCrop == StartSecondPass \/ CropTrackedFrame

SpecCrop == InitCrop /\ [][NextCrop]_vars

\* One frame sequence through process_frame, then again through
\* process_frame with a fresh PersonTracker, in the same process.
InitReplay == ReplayInit /\ TrackerInit /\ PlannerIdle /\ CropIdle /\ ClusterIdle

NextReplay == FirstRunFrame \/ FreshTracker \/ SecondRunFrame

SpecReplay == InitReplay /\ [][NextReplay]_vars

\* update, handle_no_detection, reset and update_position called directly
\* on one PersonTracker.
InitUpdate == TrackerInit /\ PlannerIdle /\ CropIdle /\ ClusterIdle /\ ReplayIdle

NextUpdate == CallUpdate \/ CallHandleNoDetection \/ CallReset \/ CallUpdatePosition

SpecUpdate == InitUpdate /\ [][NextUpdate]_vars

\* cluster_people on every list of detections.
InitCluster == ClusterInit /\ TrackerInit /\ PlannerIdle /\ CropIdle /\ ReplayIdle

NextCluster == ClusterPerson \/ ClusterReturn

SpecCluster == InitCluster /\ [][NextCluster]_vars

(***************************************************************************)
(* Claims about the MovementPlanner (checked under SpecPlanner)            *)
(***************************************************************************)
\* The record of frame f in a frame_data sequence, as a set (empty when the
\* frame has no record).
RecordsOf(frame_data, f) ==
    {i \in DOMAIN frame_data : frame_data[i].frame_num = f}

\* C1: after plan_movement was called once for each frame 0..n-1 in order,
\* frame_data holds exactly n records, whose frame_num values are 0..n-1 in
\* order.
C1_OneRecordPerFrame ==
    /\ Len(planner.frame_data) = frame_count
    /\ \A i \in DOMAIN planner.frame_data : planner.frame_data[i].frame_num = i - 1

\* C2: delayed-detection backfill.  When a scene cut was recorded at frame s,
\* the planner is still waiting for a detection and the call for frame t
\* carries a candidate with x = v (and no scene cut), then after the call
\* every record with s < frame_num < t has x = v, the record of frame s is
\* still (s, 0.5, TRUE), the records before s are unchanged and
\* waiting_for_detection is false.
C2_BackfillStep ==
    LET s   == planner.current_scene_start
        t   == plan_call'.frame_num
        v   == plan_call'.cluster
        old == planner.frame_data
        new == planner'.frame_data
    IN  ( /\ frame_count' = frame_count + 1
          /\ planner.waiting_for_detection
          /\ RecordsOf(old, s) # {}
          /\ v # None64
          /\ ~(plan_call'.frame_diff > scene_change_threshold) )
        => /\ planner'.waiting_for_detection = FALSE
           /\ \A i \in DOMAIN new :
                 (s < new[i].frame_num /\ new[i].frame_num < t) => new[i].x = v
           /\ \A i \in DOMAIN new :
                 new[i].frame_num = s => new[i] = FrameRecord(s, DEFAULT_CENTER, TRUE)
           /\ RecordsOf(new, s) # {}
           /\ \A i \in DOMAIN old :
                 old[i].frame_num < s => (i \in DOMAIN new /\ new[i] = old[i])

C2_Backfill == [][C2_BackfillStep]_vars

\* C2 witness: the latest call was the first detection after a cut at least
\* two frames earlier, and a record between the cut and this frame now
\* carries the candidate's x, which is not the default center.
C2_Witness ==
    /\ plan_call.branch = "first_detection"
    /\ plan_call.cluster # DEFAULT_CENTER
    /\ plan_call.frame_num >= planner.current_scene_start + 2
    /\ planner.current_scene_start >= 1
    /\ \E i \in DOMAIN planner.frame_data :
          /\ planner.frame_data[i].frame_num > planner.current_scene_start
          /\ planner.frame_data[i].x = plan_call.cluster

\* C8: the segments of get_scene_segments have frame ranges that are
\* non-empty, contiguous in order and together contain exactly the processed
\* frames 0..n-1.
C8_SegmentsCoverFrames ==
    LET segs == get_scene_segments(planner)
    IN  frame_count > 0 =>
          /\ Len(segs) > 0
          /\ segs[1].start_frame = 0
          /\ segs[Len(segs)].end_frame = frame_count - 1
          /\ \A k \in DOMAIN segs : segs[k].start_frame <= segs[k].end_frame
          /\ \A k \in 1..(Len(segs) - 1) :
                segs[k + 1].start_frame = segs[k].end_frame + 1

\* frame_data with the x of every record before frame s that is not a
\* scene-change marker replaced by x.
PerturbBefore(frame_data, s, x) ==
    [i \in DOMAIN frame_data |->
        IF frame_data[i].frame_num < s /\ ~frame_data[i].is_scene_change
        THEN [frame_data[i] EXCEPT !.x = x]
        ELSE frame_data[i]]

\* C9: smoothing never blends across a scene boundary.  For every segment,
\* replacing the raw positions of all earlier frames by any other value
\* leaves the smoothed centers of the segment's frames unchanged (of those
\* the returned list has), and the smoothed center of every scene-change
\* frame is the default center 0.5.
C9_NoBlendAcrossScenes ==
    pass = "crop" =>
      /\ \A k \in DOMAIN get_scene_segments(planner) :
           LET seg == get_scene_segments(planner)[k]
           IN  \A x \in PlanXs :
                 LET other == interpolate_and_smooth(
                                 [planner EXCEPT
                                     !.frame_data = PerturbBefore(@, seg.start_frame, x)],
                                 total_frames)
                 IN  /\ ~other.raised
                     /\ \A f \in seg.start_frame..seg.end_frame :
                            f + 1 \in DOMAIN smoothed_centers
                              => other.smoothed_centers[f + 1] = smoothed_centers[f + 1]
      /\ \A i \in DOMAIN planner.frame_data :
           planner.frame_data[i].is_scene_change
             => smoothed_centers[planner.frame_data[i].frame_num + 1] = DEFAULT_CENTER

\* C9 witness: smoothing has run over at least two segments; the first
\* segment ends away from the default center, and in the second segment a
\* smoothed center differs both from its raw position and from the default
\* center (the smoothing has moved inside the later segment).
C9_Witness ==
    /\ pass = "crop"
    /\ Len(get_scene_segments(planner)) >= 2
    /\ LET segs == get_scene_segments(planner)
       IN  /\ smoothed_centers[segs[1].end_frame + 1] # DEFAULT_CENTER
           /\ \E i \in DOMAIN segs[2].positions :
                 /\ segs[2].start_frame + i - 1 <= segs[2].end_frame
                 /\ smoothed_centers[segs[2].start_frame + i] # segs[2].positions[i]
                 /\ smoothed_centers[segs[2].start_frame + i] # DEFAULT_CENTER

\* C12: convergence without overshoot.  When no frame read was a scene cut
\* and every frame had a candidate at the same x = p, the smoothed center of
\* every frame read is p: p is reached on the first frame and no smoothed
\* value lies on either side of it.
C12_SteadyCandidateReached ==
    (pass = "crop" /\ steady_candidate # None64)
        => \A f \in 0..(frame_count - 1) : smoothed_centers[f + 1] = steady_candidate

\* C12 witness: three or more frames with the same candidate away from the
\* default center were planned, the planner went into centering with a
\* history of several positions, and the centers were smoothed.
C12_Witness ==
    /\ pass = "crop"
    /\ steady_candidate # None64
    /\ steady_candidate # DEFAULT_CENTER
    /\ frame_count >= 3
    /\ planner.is_centering
    /\ Len(planner.position_history) >= 2

\* The step of plan_movement on a frame without scene cut and without
\* candidate that follows at least one record.
HoldFrameStep ==
    /\ frame_count' = frame_count + 1
    /\ plan_call'.cluster = None64
    /\ ~(plan_call'.frame_diff > scene_change_threshold)
    /\ planner.frame_data # <<>>

\* C15 as stated: on a frame that is no scene cut, has no candidate and
\* follows at least one record, the record appended has the x of the previous
\* record, in every planner state, the centering sub-state included.
C15_HoldStepAlways ==
    HoldFrameStep =>
        /\ Len(planner'.frame_data) = Len(planner.frame_data) + 1
        /\ planner'.frame_data[Len(planner'.frame_data)].x
              = planner.frame_data[Len(planner.frame_data)].x

C15_HoldInEveryState == [][C15_HoldStepAlways]_vars

\* C15 amended: on such a frame one record is appended; its x is the x of
\* the previous record, unless after the frame's stability update the
\* planner is centering with more than one position in its history: then x
\* is 0.6 times the previous x plus 0.4 times the mean of the history.
C15_HoldStepOrBlend ==
    HoldFrameStep =>
        LET prev == planner.frame_data[Len(planner.frame_data)].x
            h    == planner'.position_history
        IN  /\ Len(planner'.frame_data) = Len(planner.frame_data) + 1
            /\ planner'.frame_data[Len(planner'.frame_data)].x
                  = IF planner'.is_centering /\ Len(h) > 1
                    THEN CenterBlend(h, prev)
                    ELSE prev

C15_HoldOrBlend == [][C15_HoldStepOrBlend]_vars

\* C15 witness: the latest frame had no candidate and no scene cut, the
\* planner is centering with several positions in its history, and the
\* record appended differs from the record before it.
C15_Witness ==
    /\ plan_call.branch = "normal"
    /\ plan_call.cluster = None64
    /\ Len(planner.frame_data) >= 2
    /\ planner.is_centering
    /\ Len(planner.position_history) > 1
    /\ planner.frame_data[Len(planner.frame_data)].x
          # planner.frame_data[Len(planner.frame_data) - 1].x

\* C16: for every segment, each frame of [start_frame, end_frame] that lies
\* beyond the segment's list of raw positions has, in the list returned by
\* interpolate_and_smooth, the last smoothed value of the segment.
C16_TailKeepsLastSmoothed ==
    pass = "crop" =>
        \A k \in DOMAIN get_scene_segments(planner) :
            LET seg == get_scene_segments(planner)[k]
                n   == Len(seg.positions)
            IN  \A f \in seg.start_frame..seg.end_frame :
                    (f - seg.start_frame + 1 > n /\ n >= 1)
                        => /\ f + 1 \in DOMAIN smoothed_centers
                           /\ smoothed_centers[f + 1] = smoothed_centers[seg.start_frame + n]

\* max_movement_per_frame and one millionth: a bound that the rounding of
\* the step, far below a millionth, cannot pass.
RateAllowance == Float64(30001)

\* C17: every record appended by the normal update when a previous record
\* exists has x within max_movement_per_frame of the x of the record before
\* it (rounding left aside), with or without the centering blend.
C17_RateLimitStep ==
    ( /\ frame_count' = frame_count + 1
      /\ plan_call'.branch = "normal"
      /\ planner.frame_data # <<>> )
    => /\ Len(planner'.frame_data) = Len(planner.frame_data) + 1
       /\ ~Greater64(Abs64(Sub64(planner'.frame_data[Len(planner'.frame_data)].x,
                                 planner.frame_data[Len(planner.frame_data)].x)),
                     RateAllowance)

C17_RateLimit == [][C17_RateLimitStep]_vars

\* C21: the smoothed output is aligned with the raw records.  In every
\* segment the number of raw positions is end_frame - start_frame + 1, and
\* positions[i] (counted from 0) is the raw x of the record of frame
\* start_frame + i.
C21_PositionsAlignedWithFrames ==
    \A k \in DOMAIN get_scene_segments(planner) :
        LET seg == get_scene_segments(planner)[k]
        IN  /\ Len(seg.positions) = seg.end_frame - seg.start_frame + 1
            /\ \A i \in DOMAIN seg.positions :
                  \E r \in RecordsOf(planner.frame_data, seg.start_frame + i - 1) :
                      planner.frame_data[r].x = seg.positions[i]

\* The smoothed value before the one of position i of a segment: last_x
\* when the loop reaches index i (the first raw position for i = 1).
SmoothedBefore(seg, i) ==
    IF i = 1 THEN seg.positions[1] ELSE smoothed_centers[seg.start_frame + i - 1]

\* The raw positions of a segment that the smoothing loop reaches.
SmoothedIndices(seg) ==
    {i \in DOMAIN seg.positions : seg.start_frame + i - 1 <= seg.end_frame}

\* x lies between a and b, both included.
Between64(a, x, b) ==
    \/ (Cmp64(a, x) <= 0 /\ Cmp64(x, b) <= 0)
    \/ (Cmp64(b, x) <= 0 /\ Cmp64(x, a) <= 0)

\* abs(target - before) < delta_threshold, the test of the dead band.
InDeadBand(before, target) ==
    Less64(Abs64(Sub64(target, before)), delta_threshold)

\* C24: each smoothing step moves toward the target without passing it.
\* Every smoothed value lies between the smoothed value before it and the
\* raw target of its position, both included, and equals the value before
\* it when the two differ by less than the dead band 0.015; and every
\* center the returned list has for a frame of a segment lies between the
\* least and the greatest raw position of the segment.
C24_SmoothingStaysBetween ==
    pass = "crop" =>
        \A k \in DOMAIN get_scene_segments(planner) :
            LET seg == get_scene_segments(planner)[k]
            IN  /\ \A i \in SmoothedIndices(seg) :
                      LET before   == SmoothedBefore(seg, i)
                          target   == seg.positions[i]
                          smoothed == smoothed_centers[seg.start_frame + i]
                      IN  /\ Between64(before, smoothed, target)
                          /\ InDeadBand(before, target) => smoothed = before
                /\ \A f \in seg.start_frame..seg.end_frame :
                      f + 1 \in DOMAIN smoothed_centers =>
                        /\ \E i \in DOMAIN seg.positions :
                              Cmp64(seg.positions[i], smoothed_centers[f + 1]) <= 0
                        /\ \E i \in DOMAIN seg.positions :
                              Cmp64(seg.positions[i], smoothed_centers[f + 1]) >= 0

\* C24 witness: in one segment a smoothing step has moved strictly between
\* the value before it and its target, and another step with a target
\* inside the dead band, but not at the value before it, has held.
C24_Witness ==
    /\ pass = "crop"
    /\ \E k \in DOMAIN get_scene_segments(planner) :
          LET seg == get_scene_segments(planner)[k]
          IN  /\ \E i \in SmoothedIndices(seg) :
                    /\ smoothed_centers[seg.start_frame + i] # SmoothedBefore(seg, i)
                    /\ smoothed_centers[seg.start_frame + i] # seg.positions[i]
              /\ \E i \in SmoothedIndices(seg) :
                    /\ seg.positions[i] # SmoothedBefore(seg, i)
                    /\ InDeadBand(SmoothedBefore(seg, i), seg.positions[i])
                    /\ smoothed_centers[seg.start_frame + i] = SmoothedBefore(seg, i)

(***************************************************************************)
(* Claims about the PersonTracker (checked under SpecTracker)              *)
(***************************************************************************)
\* The confidence lies below the current confidence plus the margin, and
\* at it: the sum is the one line 321 forms.
BelowMargin(confidence, state) ==
    Less64(confidence, Add64(state.current_confidence, CONFIDENCE_MARGIN))

AtMargin(confidence, state) ==
    Cmp64(confidence, Add64(state.current_confidence, CONFIDENCE_MARGIN)) = 0

\* C3: hysteresis timing.  From a locked-on state with no pending candidate
\* and lock_countdown = 0, while the same rival is the candidate of
\* consecutive frames, current_id stays on each of the first wait_frames - 1
\* frames and becomes the rival on frame wait_frames of the run.
C3_SwitchStep ==
    /\ rival_run'.n <= wait_frames
    /\ (rival_run'.n >= 1 /\ rival_run'.n < wait_frames)
          => (tracker'.current_id = tracker.current_id
              /\ tracker'.current_id # rival_run'.id)
    /\ rival_run'.n = wait_frames
          => (tracker.current_id # rival_run'.id
              /\ tracker'.current_id = rival_run'.id)

C3_SwitchOnThirtiethFrame == [][C3_SwitchStep]_vars

\* C3 witness: a run of wait_frames frames of one rival has just ended in
\* the switch to it.
C3_Witness ==
    /\ rival_run.n = wait_frames
    /\ tracker.current_id = rival_run.id
    /\ track_call.text = "switched"

\* C4: hysteresis margin.  While locked on, a frame without scene cut whose
\* candidate has another id than current_id and a confidence below
\* current_confidence + 0.15 leaves current_id unchanged and leaves no
\* pending candidate: the count is neither started nor advanced.
C4_WeakRivalStep ==
    LET c == track_call'.cluster
    IN  ( /\ tracker.current_id # None
          /\ c # NoCluster
          /\ ~(track_call'.frame_diff > scene_change_threshold)
          /\ c.id # tracker.current_id
          /\ BelowMargin(c.confidence, tracker) )
        => /\ tracker'.current_id = tracker.current_id
           /\ tracker'.new_target.id = None
           /\ tracker'.new_target.frames = 0

C4_WeakRivalNeverSwitches == [][C4_WeakRivalStep]_vars

\* C4 witness: the latest candidate was another person, more confident
\* than the current subject but by less than the margin, and was turned
\* down.
C4_Witness ==
    /\ track_call.text = "not_strong_enough"
    /\ track_call.cluster.id # tracker.current_id
    /\ Greater64(track_call.cluster.confidence, tracker.current_confidence)
    /\ BelowMargin(track_call.cluster.confidence, tracker)

\* C5: lock period.  In every state reached within lock_frames frames after
\* a committed switch, with no reset in between, there is no pending
\* candidate: new_target.id is None and new_target.frames is 0.
C5_NoPendingInLockPeriod ==
    (frames_since_switch # None /\ frames_since_switch <= lock_frames)
        => (tracker.new_target.id = None /\ tracker.new_target.frames = 0)

\* C5 witness: within the lock period a rival strong enough to contest was
\* offered and was turned down because of the lock.
C5_Witness ==
    /\ frames_since_switch # None
    /\ frames_since_switch >= 1
    /\ frames_since_switch <= lock_frames
    /\ track_call.text = "in_lock"
    /\ ~BelowMargin(track_call.cluster.confidence, tracker)

\* C6: the lock period ends.  After a committed switch lock_countdown
\* decreases with the frames and is 0 once lock_frames frames have passed
\* without a reset.
C6_LockCountsDown ==
    /\ (frames_since_switch # None /\ frames_since_switch >= 1)
          => tracker.lock_countdown < lock_frames
    /\ (frames_since_switch # None /\ frames_since_switch >= lock_frames)
          => tracker.lock_countdown = 0

\* C10: handle_no_detection on a frame without scene cut adds one to
\* lost_frames; below wait_frames nothing else changes; otherwise the
\* tracker is reset to the uninitialized state at the default center.
C10_NoDetectionStep ==
    ( /\ track_call'.cluster = NoCluster
      /\ ~(track_call'.frame_diff > scene_change_threshold) )
    => IF tracker.lost_frames + 1 < wait_frames
       THEN tracker' = [tracker EXCEPT !.lost_frames = tracker.lost_frames + 1]
       ELSE /\ tracker'.current_id = None
            /\ tracker'.current_confidence = None64
            /\ tracker'.position = <<DEFAULT_CENTER, DEFAULT_CENTER>>
            /\ tracker'.lost_frames = 0
            /\ tracker'.lock_countdown = 0
            /\ tracker'.new_target.id = None
            /\ tracker'.new_target.frames = 0

C10_NoDetection == [][C10_NoDetectionStep]_vars

\* C10 witness: a frame without detection has taken lost_frames to
\* wait_frames and reset the tracker.
C10_Witness ==
    /\ track_call.text = "lost_reset"
    /\ track_call.cluster = NoCluster
    /\ tracker.current_id = None
    /\ tracker.lost_frames = 0

\* C13: lost_frames counts frames without candidate only.  A call of
\* update with a candidate on a frame without scene cut leaves lost_frames
\* unchanged, so that the reset for loss comes only after wait_frames frames
\* without candidate.
C13_UpdateKeepsLostFramesStep ==
    ( /\ track_call'.cluster # NoCluster
      /\ ~(track_call'.frame_diff > scene_change_threshold) )
    => tracker'.lost_frames = tracker.lost_frames

C13_UpdateKeepsLostFrames == [][C13_UpdateKeepsLostFramesStep]_vars

\* C14: a switch is committed only after wait_frames consecutive
\* confirming frames.  When update commits the switch, no frame since the
\* pending count began at 1 was without the pending candidate as its
\* candidate: such a frame would have made the count start again.
C14_SwitchStep ==
    track_call'.text = "switched" => ~pending_interrupted

C14_ConsecutiveConfirmation == [][C14_SwitchStep]_vars

\* C22: with movement_threshold = 30 as process_frame passes it and
\* candidates inside the unit square, the tracker position stays inside the
\* unit square in every reachable state and update never takes the
\* displacement branch ("Person moved too far").
C22_NoDisplacementInProcessFrame ==
    /\ Between64(Zero64, tracker.position[1], One64)
    /\ Between64(Zero64, tracker.position[2], One64)
    /\ track_call.text # "moved_too_far"

\* C22 witness: a candidate of another id more than half the frame away
\* from the tracker position was offered and was taken as the start of a
\* pending candidate, not as a displacement.
C22_Witness ==
    /\ track_call.text = "candidate_started"
    /\ track_call.cluster.id # tracker.current_id
    /\ DistanceGreater(tracker.position[1], tracker.position[2],
                       track_call.cluster.x, track_call.cluster.y,
                       Float64(500000)) = {TRUE}

\* The call of update in this step has a candidate with another id than
\* current_id, on a frame without scene cut, while locked on.
OtherIdStep ==
    /\ tracker.current_id # None
    /\ track_call'.cluster # NoCluster
    /\ ~(track_call'.frame_diff > scene_change_threshold)
    /\ track_call'.cluster.id # tracker.current_id

\* C19 as stated: a candidate with another id and a confidence not greater
\* than current_confidence + 0.15, equal included, is never a rival: update
\* keeps current_id and leaves no pending candidate.
C19_NotGreaterStep ==
    ( /\ OtherIdStep
      /\ \/ BelowMargin(track_call'.cluster.confidence, tracker)
         \/ AtMargin(track_call'.cluster.confidence, tracker) )
    => /\ tracker'.current_id = tracker.current_id
       /\ tracker'.new_target.id = None
       /\ tracker'.new_target.frames = 0

C19_NotGreaterNeverRival == [][C19_NotGreaterStep]_vars

\* The tracker after update turned the candidate c down as not strong
\* enough (lines 300, 321-325).
TurnedDown(state, c) ==
    [state EXCEPT !.lost_frames = @ + 1,
                  !.position = <<c.x, c.y>>,
                  !.new_target.id = None,
                  !.new_target.frames = 0]

\* The tracker after update went on in the lock period (lines 300,
\* 327-329).
WentOnInLock(state, c) ==
    [state EXCEPT !.lost_frames = @ + 1, !.position = <<c.x, c.y>>]

\* The tracker after update started the pending count of the candidate c
\* (lines 300, 331-335).
CountStarted(state, c) ==
    [state EXCEPT !.lost_frames = @ + 1,
                  !.new_target = [id |-> c.id, confidence |-> c.confidence,
                                  frames |-> 1]]

\* C19 amended: when process_frame hands update a candidate with another id
\* than current_id on a frame without scene cut, a confidence below
\* current_confidence + 0.15 keeps current_id and clears the pending
\* candidate, the position becoming the candidate's and lost_frames one
\* more; a confidence equal to current_confidence + 0.15 makes it a rival:
\* in the lock period only the position and lost_frames change, outside it
\* the pending count of this candidate is started at 1, or advanced by one,
\* or, on reaching wait_frames, the switch to it is committed and the lock
\* period begins.
C19_BelowOrEqualStep ==
    LET c == track_call'.cluster
    IN  OtherIdStep =>
          /\ BelowMargin(c.confidence, tracker)
                => /\ tracker' = TurnedDown(tracker, c)
                   /\ track_call'.text = "not_strong_enough"
          /\ AtMargin(c.confidence, tracker)
                => IF tracker.lock_countdown > 0
                   THEN /\ tracker' = WentOnInLock(tracker, c)
                        /\ track_call'.text = "in_lock"
                   ELSE IF tracker.new_target.id # c.id
                   THEN /\ tracker' = CountStarted(tracker, c)
                        /\ track_call'.text = "candidate_started"
                   ELSE IF tracker.new_target.frames + 1 < wait_frames
                   THEN /\ tracker'.current_id = tracker.current_id
                        /\ tracker'.current_confidence = tracker.current_confidence
                        /\ tracker'.lost_frames = tracker.lost_frames + 1
                        /\ tracker'.lock_countdown = 0
                        /\ tracker'.new_target =
                               [tracker.new_target EXCEPT !.frames = @ + 1]
                        /\ track_call'.text = "buffering"
                   ELSE /\ tracker'.current_id = c.id
                        /\ tracker'.current_confidence = tracker.new_target.confidence
                        /\ tracker'.lost_frames = tracker.lost_frames + 1
                        /\ tracker'.lock_countdown = lock_frames
                        /\ tracker'.new_target.id = None
                        /\ tracker'.new_target.frames = 0
                        /\ track_call'.text = "switched"

C19_BelowNeverRivalEqualIs == [][C19_BelowOrEqualStep]_vars

\* C19 witness: in the lock period after a committed switch the latest
\* candidate had another id and exactly the confidence
\* current_confidence + 0.15, and update went on with the current subject.
C19_Witness ==
    /\ track_call.text = "in_lock"
    /\ track_call.cluster.id # tracker.current_id
    /\ AtMargin(track_call.cluster.confidence, tracker)
    /\ tracker.lock_countdown = lock_frames
    /\ tracker.new_target.id = None

(***************************************************************************)
(* Claims about the crop window (checked under SpecCrop)                   *)
(***************************************************************************)
\* C7: crop window.  For every center in [0, 1], source width and crop
\* width, the degenerate case crop_width > width included, both process_video
\* and process_frame compute a rectangle, it lies in [0, width] and it has
\* the crop width.
C7_WindowAlwaysInside ==
    crop.by # "none" =>
        /\ crop.cut
        /\ 0 <= crop.window.x_start
        /\ crop.window.x_end <= crop.width
        /\ crop.window.x_end - crop.window.x_start = CropWidth(crop.height)

(***************************************************************************)
(* Claims about replaying a frame sequence (checked under SpecReplay)      *)
(***************************************************************************)
\* C11: replay determinism.  When the frame sequence of a first run is fed
\* again, frame by frame through process_frame, to a fresh PersonTracker,
\* every output of the second run (position and status) equals the output
\* of the first run for the same frame; the module-level prev_gray_frame
\* left by the first run has no influence.
C11_ReplayDeterminism ==
    \A i \in DOMAIN replay.second : replay.second[i] = replay.first[i]

(***************************************************************************)
(* Claims about cluster_people (checked under SpecCluster)                 *)
(***************************************************************************)
\* The centroid of cluster a is at least as near to the detection as that of
\* cluster b: the squared distances of line 90 compared, in the values of
\* the powers that favour a.
NearerOrAsNear(a, b, person) ==
    \E da \in CentroidDistanceSquared(a, person),
       db \in CentroidDistanceSquared(b, person) : ~Greater64(da, db)

\* C18: each detection is added to the nearest cluster.  The detection
\* processed last went to a new cluster when no cluster it met had its
\* centroid within 0.05; otherwise it went to a cluster within 0.05 whose
\* centroid was at least as near as that of every other cluster.
C18_JoinsNearest ==
    clustering.i >= 1 =>
        LET person == clustering.people[clustering.i]
            before == clustering.before
            hits   == {k \in DOMAIN before :
                          TRUE \in WithinThreshold(before[k], person, cluster_threshold)}
            misses == {k \in DOMAIN before :
                          FALSE \in WithinThreshold(before[k], person, cluster_threshold)}
        IN  IF clustering.joined = Len(before) + 1
            THEN misses = DOMAIN before
            ELSE /\ clustering.joined \in hits
                 /\ \A j \in DOMAIN before :
                       NearerOrAsNear(before[clustering.joined], before[j], person)

(***************************************************************************)
(* Claims about direct calls of update (checked under SpecUpdate)          *)
(***************************************************************************)
\* The candidate of the call in this step lies farther from the current
\* position than the movement_threshold of the call, whatever the powers
\* of line 293 return.
DisplacedStep ==
    DistanceGreater(tracker.position[1], tracker.position[2],
                    track_call'.cluster.x, track_call'.cluster.y,
                    track_call'.movement_threshold) = {TRUE}

\* C20: displacement takes precedence.  While locked on, on a frame without
\* scene cut, a candidate farther from the current position than
\* movement_threshold is adopted in that call: current_id,
\* current_confidence and position become the candidate's, whatever its id
\* and confidence, lock_countdown and the pending candidate.
C20_DisplacementStep ==
    LET c == track_call'.cluster
    IN  ( /\ tracker.current_id # None
          /\ c # NoCluster
          /\ ~(track_call'.frame_diff > scene_change_threshold)
          /\ DisplacedStep )
        => /\ tracker'.current_id = c.id
           /\ tracker'.current_confidence = c.confidence
           /\ tracker'.position = <<c.x, c.y>>
           /\ track_call'.text = "moved_too_far"

C20_DisplacementFirst == [][C20_DisplacementStep]_vars

\* C20 witness: a displaced candidate was adopted in the lock period after
\* a committed switch.
C20_Witness ==
    /\ track_call.text = "moved_too_far"
    /\ tracker.lock_countdown > 0
    /\ tracker.current_id = track_call.cluster.id
    /\ tracker.position = <<track_call.cluster.x, track_call.cluster.y>>

\* C23: in every state reached by calls of update, handle_no_detection and
\* reset (and of update_position), new_target.frames lies in 0..wait_frames - 1, it is 0 exactly when
\* new_target.id is None, and current_id is None exactly when
\* current_confidence is None.
C23_PendingCandidateInvariant ==
    /\ 0 <= tracker.new_target.frames
    /\ tracker.new_target.frames <= wait_frames - 1
    /\ (tracker.new_target.frames = 0) <=> (tracker.new_target.id = None)
    /\ (tracker.current_id = None) <=> (tracker.current_confidence = None64)

\* C23 witness: a pending candidate has been counted for wait_frames - 1
\* frames while the tracker is locked on another person.
C23_Witness ==
    /\ tracker.new_target.frames = wait_frames - 1
    /\ tracker.new_target.id # None
    /\ tracker.current_id # None
    /\ tracker.current_id # tracker.new_target.id

=============================================================================
